---------------------------- MODULE Spec2Model ----------------------------
(***************************************************************************)
(* convert_icon.py: the reporter that lists the bitmap renditions of a     *)
(* macOS iconset.  The script is a module body executed top to bottom: a   *)
(* table literal, six print statements, a for loop over the table whose    *)
(* body prints one formatted line, and three closing print statements.     *)
(*                                                                         *)
(* Text is modelled as sequences of one-character strings, so that the     *)
(* f-string of the loop body, the decimal rendering of the dimensions and  *)
(* the shape of the filenames are computed and can be parsed back.         *)
(*                                                                         *)
(* Two executions of the script are composed side by side, each started in *)
(* an environment of its own, so that statements about "every run" and     *)
(* about "any two runs" are statements about the reachable states.         *)
(***************************************************************************)
EXTENDS Integers, Sequences, FiniteSets

\* The number of distinct process environments a run may be started in.
MaxEnv == 2

\* The two executions compared with each other.
Runs == {1, 2}

\* The environments (variables, clock, seed) a run can find itself in.
Environments == 1..MaxEnv

VARIABLES
    pc,         \* pc[r]: the statement run r executes next
    sizes,      \* sizes[r]: the module-level list `sizes`
    idx,        \* idx[r]: the position of the for loop's list iterator
    size,       \* size[r]: the loop target `size` (0 before the first iteration)
    filename,   \* filename[r]: the loop target `filename` (empty before the first iteration)
    stdout,     \* stdout[r]: the lines written to standard output so far
    effects,    \* effects[r]: the subprocess invocations and file operations performed so far
    exitstatus, \* exitstatus[r]: << >> while the interpreter runs, <<status>> once it has exited
    environ     \* environ[r]: the environment the run was started in

vars == <<pc, sizes, idx, size, filename, stdout, effects, exitstatus, environ>>

-----------------------------------------------------------------------------
(* The table literal and the fixed texts.                                  *)

SizeTable ==  \* the list literal bound to sizes
    <<
      <<16, <<"i", "c", "o", "n", "_", "1", "6", "x", "1", "6", ".", "p", "n", "g">>>>,
      <<32, <<"i", "c", "o", "n", "_", "1", "6", "x", "1", "6", "@", "2", "x", ".", "p", "n", "g">>>>,
      <<32, <<"i", "c", "o", "n", "_", "3", "2", "x", "3", "2", ".", "p", "n", "g">>>>,
      <<64, <<"i", "c", "o", "n", "_", "3", "2", "x", "3", "2", "@", "2", "x", ".", "p", "n", "g">>>>,
      <<128, <<"i", "c", "o", "n", "_", "1", "2", "8", "x", "1", "2", "8", ".", "p", "n", "g">>>>,
      <<256, <<"i", "c", "o", "n", "_", "1", "2", "8", "x", "1", "2", "8", "@", "2", "x", ".", "p", "n", "g">>>>,
      <<256, <<"i", "c", "o", "n", "_", "2", "5", "6", "x", "2", "5", "6", ".", "p", "n", "g">>>>,
      <<512, <<"i", "c", "o", "n", "_", "2", "5", "6", "x", "2", "5", "6", "@", "2", "x", ".", "p", "n", "g">>>>,
      <<512, <<"i", "c", "o", "n", "_", "5", "1", "2", "x", "5", "1", "2", ".", "p", "n", "g">>>>,
      <<1024, <<"i", "c", "o", "n", "_", "5", "1", "2", "x", "5", "1", "2", "@", "2", "x", ".", "p", "n", "g">>>>
    >>

Text21 ==  \* "Note: This script requires librsvg (rsvg-convert) to be installed."
    << "N", "o", "t", "e", ":", " ", "T", "h", "i", "s", " ", "s", "c", "r", "i", "p",
       "t", " ", "r", "e", "q", "u", "i", "r", "e", "s", " ", "l", "i", "b", "r", "s",
       "v", "g", " ", "(", "r", "s", "v", "g", "-", "c", "o", "n", "v", "e", "r", "t",
       ")", " ", "t", "o", " ", "b", "e", " ", "i", "n", "s", "t", "a", "l", "l", "e",
       "d", "." >>

Text22 ==  \* "You can install it with: brew install librsvg"
    << "Y", "o", "u", " ", "c", "a", "n", " ", "i", "n", "s", "t", "a", "l", "l", " ",
       "i", "t", " ", "w", "i", "t", "h", ":", " ", "b", "r", "e", "w", " ", "i", "n",
       "s", "t", "a", "l", "l", " ", "l", "i", "b", "r", "s", "v", "g" >>

Text24 ==  \* "Alternatively, you can use an online converter or image editing software"
    << "A", "l", "t", "e", "r", "n", "a", "t", "i", "v", "e", "l", "y", ",", " ", "y",
       "o", "u", " ", "c", "a", "n", " ", "u", "s", "e", " ", "a", "n", " ", "o", "n",
       "l", "i", "n", "e", " ", "c", "o", "n", "v", "e", "r", "t", "e", "r", " ", "o",
       "r", " ", "i", "m", "a", "g", "e", " ", "e", "d", "i", "t", "i", "n", "g", " ",
       "s", "o", "f", "t", "w", "a", "r", "e" >>

Text25 ==  \* "to create PNG files at these sizes:"
    << "t", "o", " ", "c", "r", "e", "a", "t", "e", " ", "P", "N", "G", " ", "f", "i",
       "l", "e", "s", " ", "a", "t", " ", "t", "h", "e", "s", "e", " ", "s", "i", "z",
       "e", "s", ":" >>

Text32 ==  \* "Place the PNG files in assets/helix-gpui.iconset/"
    << "P", "l", "a", "c", "e", " ", "t", "h", "e", " ", "P", "N", "G", " ", "f", "i",
       "l", "e", "s", " ", "i", "n", " ", "a", "s", "s", "e", "t", "s", "/", "h", "e",
       "l", "i", "x", "-", "g", "p", "u", "i", ".", "i", "c", "o", "n", "s", "e", "t",
       "/" >>

Text33 ==  \* "Then run: iconutil -c icns assets/helix-gpui.iconset -o assets/helix-gpui.icns"
    << "T", "h", "e", "n", " ", "r", "u", "n", ":", " ", "i", "c", "o", "n", "u", "t",
       "i", "l", " ", "-", "c", " ", "i", "c", "n", "s", " ", "a", "s", "s", "e", "t",
       "s", "/", "h", "e", "l", "i", "x", "-", "g", "p", "u", "i", ".", "i", "c", "o",
       "n", "s", "e", "t", " ", "-", "o", " ", "a", "s", "s", "e", "t", "s", "/", "h",
       "e", "l", "i", "x", "-", "g", "p", "u", "i", ".", "i", "c", "n", "s" >>

TextPixels ==  \* " pixels"
    << " ", "p", "i", "x", "e", "l", "s" >>

-----------------------------------------------------------------------------
(* str() of a non-negative int, and the f-string of the loop body.         *)

DigitChars == << "0", "1", "2", "3", "4", "5", "6", "7", "8", "9" >>

RECURSIVE Str(_)
Str(n) ==
    IF n < 10 THEN << DigitChars[n + 1] >>
    ELSE Str(n \div 10) \o << DigitChars[(n % 10) + 1] >>

\* f"- {filename}: {size}x{size} pixels"
FormatEntry(sz, fname) ==
    << "-", " " >> \o fname \o << ":", " " >> \o Str(sz) \o << "x" >> \o Str(sz) \o TextPixels

-----------------------------------------------------------------------------
(* The statements.                                                         *)

\* print(line): the line is appended to standard output and control passes to
\* statement `to`; nothing else changes.
WriteLine(r, line, to) ==
    /\ stdout' = [stdout EXCEPT ![r] = Append(@, line)]
    /\ pc' = [pc EXCEPT ![r] = to]
    /\ UNCHANGED <<sizes, idx, size, filename, effects, exitstatus, environ>>

Print21(r) ==
    /\ pc[r] = "l21"
    /\ WriteLine(r, Text21, "l22")

Print22(r) ==
    /\ pc[r] = "l22"
    /\ WriteLine(r, Text22, "l23")

Print23(r) ==
    /\ pc[r] = "l23"
    /\ WriteLine(r, << >>, "l24")

Print24(r) ==
    /\ pc[r] = "l24"
    /\ WriteLine(r, Text24, "l25")

Print25(r) ==
    /\ pc[r] = "l25"
    /\ WriteLine(r, Text25, "l26")

\* Variant: the blank line before the list is left out.
Print26Forgotten(r) ==
    /\ pc[r] = "l26"
    /\ pc' = [pc EXCEPT ![r] = "l28"]
    /\ UNCHANGED <<sizes, idx, size, filename, stdout, effects, exitstatus, environ>>

Print26(r) ==
    /\ pc[r] = "l26"
    /\ WriteLine(r, << >>, "l28")

\* Variant: the loop runs over sizes[1:], missing the first entry.
ForNextSkipsFirst(r) ==
    /\ pc[r] = "l28"
    /\ \/ /\ idx[r] + 1 < Len(sizes[r])
          /\ idx' = [idx EXCEPT ![r] = @ + 1]
          /\ size' = [size EXCEPT ![r] = sizes[r][idx[r] + 2][1]]
          /\ filename' = [filename EXCEPT ![r] = sizes[r][idx[r] + 2][2]]
          /\ pc' = [pc EXCEPT ![r] = "l29"]
       \/ /\ idx[r] + 1 >= Len(sizes[r])
          /\ pc' = [pc EXCEPT ![r] = "l31"]
          /\ UNCHANGED <<idx, size, filename>>
    /\ UNCHANGED <<sizes, stdout, effects, exitstatus, environ>>

\* for size, filename in sizes: the list iterator yields sizes[idx] while idx is
\* inside the list as it is now, and the loop ends otherwise.
ForNext(r) ==
    /\ pc[r] = "l28"
    /\ \/ /\ idx[r] < Len(sizes[r])
          /\ idx' = [idx EXCEPT ![r] = @ + 1]
          /\ size' = [size EXCEPT ![r] = sizes[r][idx[r] + 1][1]]
          /\ filename' = [filename EXCEPT ![r] = sizes[r][idx[r] + 1][2]]
          /\ pc' = [pc EXCEPT ![r] = "l29"]
       \/ /\ idx[r] >= Len(sizes[r])
          /\ pc' = [pc EXCEPT ![r] = "l31"]
          /\ UNCHANGED <<idx, size, filename>>
    /\ UNCHANGED <<sizes, stdout, effects, exitstatus, environ>>

\* Variant: the loop body runs the converter for the entry as well.
PrintEntryConverts(r) ==
    /\ pc[r] = "l29"
    /\ stdout' = [stdout EXCEPT ![r] = Append(@, FormatEntry(size[r], filename[r]))]
    /\ effects' = [effects EXCEPT ![r] = Append(@, << "rsvg-convert", size[r], filename[r] >>)]
    /\ pc' = [pc EXCEPT ![r] = "l28"]
    /\ UNCHANGED <<sizes, idx, size, filename, exitstatus, environ>>

\* Variant: the loop takes each entry off the front of the list.
PrintEntryConsumes(r) ==
    /\ pc[r] = "l29"
    /\ stdout' = [stdout EXCEPT ![r] = Append(@, FormatEntry(size[r], filename[r]))]
    /\ sizes' = [sizes EXCEPT ![r] = Tail(@)]
    /\ idx' = [idx EXCEPT ![r] = @ - 1]
    /\ pc' = [pc EXCEPT ![r] = "l28"]
    /\ UNCHANGED <<size, filename, effects, exitstatus, environ>>

PrintEntry(r) ==
    /\ pc[r] = "l29"
    /\ WriteLine(r, FormatEntry(size[r], filename[r]), "l28")

Print31(r) ==
    /\ pc[r] = "l31"
    /\ WriteLine(r, << >>, "l32")

\* Variant: the destination directory is taken from the environment.
Print32FromEnvironment(r) ==
    /\ pc[r] = "l32"
    /\ WriteLine(r, Text32 \o Str(environ[r]), "l33")

Print32(r) ==
    /\ pc[r] = "l32"
    /\ WriteLine(r, Text32, "l33")

Print33(r) ==
    /\ pc[r] = "l33"
    /\ WriteLine(r, Text33, "eof")

\* Variant: the script gives up with status 1, as if the converter were missing.
ExitFailure(r) ==
    /\ pc[r] = "eof"
    /\ pc' = [pc EXCEPT ![r] = "exited"]
    /\ exitstatus' = [exitstatus EXCEPT ![r] = << 1 >>]
    /\ UNCHANGED <<sizes, idx, size, filename, stdout, effects, environ>>

\* The module body has run to its end: the interpreter exits with status 0.
Exit(r) ==
    /\ pc[r] = "eof"
    /\ pc' = [pc EXCEPT ![r] = "exited"]
    /\ exitstatus' = [exitstatus EXCEPT ![r] = << 0 >>]
    /\ UNCHANGED <<sizes, idx, size, filename, stdout, effects, environ>>

-----------------------------------------------------------------------------

\* The state when the first print statement is reached: the imports are done
\* and `sizes` is bound to the table.
InitWith(table) ==
    /\ pc = [r \in Runs |-> "l21"]
    /\ sizes = [r \in Runs |-> table]
    /\ idx = [r \in Runs |-> 0]
    /\ size = [r \in Runs |-> 0]
    /\ filename = [r \in Runs |-> << >>]
    /\ stdout = [r \in Runs |-> << >>]
    /\ effects = [r \in Runs |-> << >>]
    /\ exitstatus = [r \in Runs |-> << >>]
    /\ environ \in [Runs -> Environments]

\* Variants of the table literal.
TableWith(i, entry) == [SizeTable EXCEPT ![i] = entry]

\* (46, "icon_32x32@2x.png"): a dimension mistyped.
InitDimensionMistyped == InitWith(TableWith(4, << 46, SizeTable[4][2] >>))

\* (64, "icon_64x64.png"): the file named by its pixel size.
InitNamedByPixelSize ==
    InitWith(TableWith(4, << 64, << "i", "c", "o", "n", "_", "6", "4", "x", "6", "4",
                                    ".", "p", "n", "g" >> >>))

\* The 2x entry of logical size 32 listed before its 1x entry.
InitScalesSwapped ==
    InitWith([SizeTable EXCEPT ![3] = SizeTable[4], ![4] = SizeTable[3]])

\* (16, "icon_16x16@2x.png"): the scale factor not applied to the dimension.
InitScaleNotApplied == InitWith(TableWith(2, << 16, SizeTable[2][2] >>))

Init == InitWith(SizeTable)

Step(r) ==
    \/ Print21(r)
    \/ Print22(r)
    \/ Print23(r)
    \/ Print24(r)
    \/ Print25(r)
    \/ Print26(r)
    \/ ForNext(r)
    \/ PrintEntry(r)
    \/ Print31(r)
    \/ Print32(r)
    \/ Print33(r)
    \/ Exit(r)

Next == \E r \in Runs : Step(r)

Spec == Init /\ [][Next]_vars

\* A started interpreter keeps executing statements until it exits.
FairSpec == Spec /\ \A r \in Runs : WF_vars(Step(r))

-----------------------------------------------------------------------------
(* Reading text back: the operators the properties use to take the written *)
(* lines and the filenames apart.                                          *)

StartsWith(s, p) == Len(s) >= Len(p) /\ SubSeq(s, 1, Len(p)) = p

EndsWith(s, p) == Len(s) >= Len(p) /\ SubSeq(s, Len(s) - Len(p) + 1, Len(s)) = p

\* t stands in s at position i.
OccursAt(s, t, i) == \A k \in 1..Len(t) : s[i + k - 1] = t[k]

Contains(s, t) == \E i \in 1..(Len(s) - Len(t) + 1) : OccursAt(s, t, i)

\* The first position at which t occurs in s, 0 when it does not occur.
IndexOf(s, t) ==
    IF ~Contains(s, t) THEN 0
    ELSE CHOOSE i \in 1..(Len(s) - Len(t) + 1) :
            /\ OccursAt(s, t, i)
            /\ \A j \in 1..(i - 1) : ~OccursAt(s, t, j)

IsDigit(c) == \E d \in 1..10 : DigitChars[d] = c

DigitValue(c) == (CHOOSE d \in 1..10 : DigitChars[d] = c) - 1

\* A decimal numeral: digits only, no leading zero.
IsNumber(s) ==
    /\ Len(s) > 0
    /\ \A i \in 1..Len(s) : IsDigit(s[i])
    /\ (Len(s) > 1 => s[1] # "0")

RECURSIVE ParseInt(_)
ParseInt(s) ==
    IF Len(s) = 0 THEN 0
    ELSE 10 * ParseInt(SubSeq(s, 1, Len(s) - 1)) + DigitValue(s[Len(s)])

IsEntryLine(line) == StartsWith(line, << "-", " " >>)

EntryLines(out) == SelectSeq(out, IsEntryLine)

\* A line `- <name>: <width>x<height> pixels` taken apart.
ReadEntry(line) ==
    LET p    == IndexOf(line, << ":", " " >>)
        name == SubSeq(line, 3, p - 1)
        rest == SubSeq(line, p + 2, Len(line))
        q    == IndexOf(rest, << "x" >>)
        w    == SubSeq(rest, 1, q - 1)
        tail == SubSeq(rest, q + 1, Len(rest))
        u    == IndexOf(tail, << " " >>)
        h    == SubSeq(tail, 1, u - 1)
        good == /\ IsEntryLine(line)
                /\ p > 3
                /\ q > 1
                /\ u > 1
                /\ SubSeq(tail, u, Len(tail)) = << " ", "p", "i", "x", "e", "l", "s" >>
                /\ IsNumber(w)
                /\ IsNumber(h)
    IN  [ok     |-> good,
         name   |-> name,
         width  |-> IF good THEN ParseInt(w) ELSE 0,
         height |-> IF good THEN ParseInt(h) ELSE 0]

IsPrefix(s, t) == Len(s) <= Len(t) /\ SubSeq(t, 1, Len(s)) = s

\* A step writes at most one line, after the lines already written.
AppendsOnly ==
    \A r \in Runs :
        \/ stdout'[r] = stdout[r]
        \/ /\ Len(stdout'[r]) = Len(stdout[r]) + 1
           /\ IsPrefix(stdout[r], stdout'[r])

-----------------------------------------------------------------------------
(* The size/filename list.                                                 *)

ListedDimensions == << 16, 32, 32, 64, 128, 256, 256, 512, 512, 1024 >>

\* C1: once a run has ended, the size/filename list on its standard output has
\* exactly 10 lines whose pixel dimensions, top to bottom, are 16, 32, 32, 64,
\* 128, 256, 256, 512, 512, 1024, each with the filename of the table entry at
\* the same position.
C1_ListHasTheTenDimensions ==
    \A r \in Runs :
        pc[r] = "exited" =>
            LET list == EntryLines(stdout[r])
            IN  /\ Len(list) = 10
                /\ Len(sizes[r]) = 10
                /\ \A i \in 1..10 :
                      LET e == ReadEntry(list[i])
                      IN  /\ e.ok
                          /\ e.width = ListedDimensions[i]
                          /\ e.height = ListedDimensions[i]
                          /\ e.name = sizes[r][i][2]

C1_Witness ==
    \E r \in Runs :
        /\ pc[r] = "exited"
        /\ Len(EntryLines(stdout[r])) = 10
        /\ ReadEntry(EntryLines(stdout[r])[10]).width = 1024

LineIcon16At2x ==  \* "- icon_16x16@2x.png: 32x32 pixels"
    << "-", " ", "i", "c", "o", "n", "_", "1", "6", "x", "1", "6", "@", "2", "x", ".",
       "p", "n", "g", ":", " ", "3", "2", "x", "3", "2", " ", "p", "i", "x", "e", "l",
       "s" >>

\* The loop iterations run r has completed.
IterationsDone(r) == IF pc[r] = "l29" THEN idx[r] - 1 ELSE idx[r]

C2_EntriesSoFar ==
    \A r \in Runs :
        LET list == EntryLines(stdout[r])
        IN  /\ Len(list) = IterationsDone(r)
            /\ Len(list) <= Len(sizes[r])
            /\ \A i \in 1..Len(list) :
                  LET e == ReadEntry(list[i])
                  IN  /\ e.ok
                      /\ e.name = sizes[r][i][2]
                      /\ e.width = sizes[r][i][1]
                      /\ e.height = e.width
            /\ pc[r] = "exited" =>
                  /\ Len(list) = Len(sizes[r])
                  /\ \E i \in 1..Len(list) : list[i] = LineIcon16At2x

\* C2: the loop writes, for each entry of the table and in table order, exactly
\* one line `- <filename>: <dimension>x<dimension> pixels`: at every moment the
\* entry lines written are those of the first entries of the table, one per
\* completed iteration, every step appends at most one line, and a finished run
\* has written a line for every entry, `- icon_16x16@2x.png: 32x32 pixels` among
\* them.
C2_OneLinePerEntryInTableOrder == [] C2_EntriesSoFar /\ [][AppendsOnly]_vars

C2_Witness ==
    \E r \in Runs :
        /\ pc[r] = "l28"
        /\ idx[r] = 2
        /\ stdout[r][Len(stdout[r])] = LineIcon16At2x

-----------------------------------------------------------------------------
(* The order of the output sections.                                       *)

NeedleLibrsvg == << "l", "i", "b", "r", "s", "v", "g" >>

NeedleRsvgConvert == << "r", "s", "v", "g", "-", "c", "o", "n", "v", "e", "r", "t" >>

NeedleBrewInstall ==  \* "brew install librsvg"
    << "b", "r", "e", "w", " ", "i", "n", "s", "t", "a", "l", "l", " ", "l", "i", "b",
       "r", "s", "v", "g" >>

NeedleOnlineConverter ==  \* "online converter"
    << "o", "n", "l", "i", "n", "e", " ", "c", "o", "n", "v", "e", "r", "t", "e", "r" >>

NeedleCreatePng ==  \* "create PNG files"
    << "c", "r", "e", "a", "t", "e", " ", "P", "N", "G", " ", "f", "i", "l", "e", "s" >>

NeedleIconsetDir ==  \* "assets/helix-gpui.iconset/"
    << "a", "s", "s", "e", "t", "s", "/", "h", "e", "l", "i", "x", "-", "g", "p", "u",
       "i", ".", "i", "c", "o", "n", "s", "e", "t", "/" >>

NeedleIconutil ==  \* "iconutil -c icns"
    << "i", "c", "o", "n", "u", "t", "i", "l", " ", "-", "c", " ", "i", "c", "n", "s" >>

\* What a written line is, judged by its content alone.
KindOf(line) ==
    IF line = << >> THEN "blank"
    ELSE IF IsEntryLine(line) THEN "entry"
    ELSE IF Contains(line, NeedleIconutil) THEN "compile"
    ELSE IF Contains(line, NeedleIconsetDir) THEN "destination"
    ELSE IF Contains(line, NeedleLibrsvg) THEN "tool"
    ELSE IF Contains(line, NeedleOnlineConverter) \/ Contains(line, NeedleCreatePng) THEN "manual"
    ELSE "other"

\* The kinds of the lines of out, line by line.
RECURSIVE KindsOf(_)
KindsOf(out) ==
    IF out = << >> THEN << >> ELSE << KindOf(Head(out)) >> \o KindsOf(Tail(out))

SectionOrder ==
    << "tool", "blank", "manual", "blank", "entry", "blank", "destination", "compile" >>

\* The number of the section line j of `kinds` stands in: a run of lines of one
\* kind is one section.
SectionNo(kinds, j) ==
    Cardinality({k \in 1..j : k = 1 \/ kinds[k] # kinds[k - 1]})

C3_LayoutSoFar ==
    \A r \in Runs :
        LET out   == stdout[r]
            n     == Len(out)
            kinds == KindsOf(out)
            sec   == [j \in 1..n |-> SectionNo(kinds, j)]
        IN  /\ \A j \in 1..n : sec[j] <= Len(SectionOrder) /\ kinds[j] = SectionOrder[sec[j]]
            /\ \A j \in 1..(n - 1) : ~(kinds[j] = "blank" /\ kinds[j + 1] = "blank")
            /\ (n > 0 /\ sec[n] >= 2) =>
                  /\ \E j \in 1..n : sec[j] = 1 /\ Contains(out[j], NeedleRsvgConvert)
                  /\ \E j \in 1..n : sec[j] = 1 /\ Contains(out[j], NeedleBrewInstall)
            /\ (n > 0 /\ sec[n] >= 4) =>
                  \E j \in 1..n : sec[j] = 3 /\ Contains(out[j], NeedleOnlineConverter)
            /\ Cardinality({j \in 1..n : kinds[j] = "destination"}) <= 1
            /\ Cardinality({j \in 1..n : kinds[j] = "compile"}) <= 1
            /\ pc[r] \in {"eof", "exited"} =>
                  /\ n > 0
                  /\ sec[n] = Len(SectionOrder)

\* C3: the sections are written in the fixed order tool notice, blank line,
\* manual-alternative notice, blank line, entry lines, blank line, destination
\* instruction, compiler-command instruction: at every moment the lines written
\* so far are a beginning of that layout (so no entry line comes before the
\* second blank line or after the third), lines are only ever appended, and the
\* compiler-command line is the last line of a finished run.
C3_SectionsInFixedOrder == [] C3_LayoutSoFar /\ [][AppendsOnly]_vars

C3_Witness ==
    \E r \in Runs :
        /\ pc[r] = "exited"
        /\ Len(stdout[r]) = 19
        /\ KindOf(stdout[r][16]) = "entry"
        /\ KindOf(stdout[r][17]) = "blank"
        /\ KindOf(stdout[r][19]) = "compile"

-----------------------------------------------------------------------------
(* The table: the shape of its filenames and its order.                    *)

\* A filename `icon_<first>x<second>[@2x].png` taken apart.
ReadName(name) ==
    LET pre  == << "i", "c", "o", "n", "_" >>
        ext  == << ".", "p", "n", "g" >>
        at2x == << "@", "2", "x" >>
        mid  == SubSeq(name, Len(pre) + 1, Len(name) - Len(ext))
        hi   == EndsWith(mid, at2x)
        core == IF hi THEN SubSeq(mid, 1, Len(mid) - Len(at2x)) ELSE mid
        q    == IndexOf(core, << "x" >>)
        a    == SubSeq(core, 1, q - 1)
        b    == SubSeq(core, q + 1, Len(core))
        good == /\ Len(name) >= Len(pre) + Len(ext)
                /\ StartsWith(name, pre)
                /\ EndsWith(name, ext)
                /\ q > 1
                /\ IsNumber(a)
                /\ IsNumber(b)
    IN  [ok     |-> good,
         first  |-> IF good THEN ParseInt(a) ELSE 0,
         second |-> IF good THEN ParseInt(b) ELSE 0,
         scale  |-> IF hi THEN 2 ELSE 1]

\* The filenames of table t taken apart, entry by entry.
RECURSIVE NamesOf(_)
NamesOf(t) ==
    IF t = << >> THEN << >> ELSE << ReadName(Head(t)[2]) >> \o NamesOf(Tail(t))

LogicalSizes == << 16, 32, 128, 256, 512 >>

IsLogicalSize(n) == \E k \in 1..Len(LogicalSizes) : LogicalSizes[k] = n

IsIconsetName(name) ==
    LET f == ReadName(name)
    IN  f.ok /\ f.first = f.second /\ IsLogicalSize(f.first)

\* C4: every filename of the table, and the filename on every entry line
\* written, is `icon_<L>x<L>`, an optional `@2x`, then `.png`, with the same
\* number L twice and L one of 16, 32, 128, 256, 512.
C4_FilenamesFollowThePattern ==
    \A r \in Runs :
        /\ \A i \in 1..Len(sizes[r]) : IsIconsetName(sizes[r][i][2])
        /\ \A j \in 1..Len(stdout[r]) :
              IsEntryLine(stdout[r][j]) =>
                  /\ ReadEntry(stdout[r][j]).ok
                  /\ IsIconsetName(ReadEntry(stdout[r][j]).name)

C4_Witness ==
    \E r \in Runs :
        /\ pc[r] = "l28"
        /\ idx[r] = 6
        /\ ReadName(filename[r]).scale = 2
        /\ ReadEntry(stdout[r][Len(stdout[r])]).name = filename[r]

\* C5: the table holds exactly ten entries, the 1x entry and then the 2x entry
\* of each of the logical sizes 16, 32, 128, 256, 512, in that ascending order,
\* so every logical size occurs exactly once at each scale.
C5_TenEntriesInConventionOrder ==
    \A r \in Runs :
        LET names == NamesOf(sizes[r])
        IN  /\ Len(sizes[r]) = 2 * Len(LogicalSizes)
            /\ Len(sizes[r]) = 10
            /\ \A k \in 1..(Len(LogicalSizes) - 1) : LogicalSizes[k] < LogicalSizes[k + 1]
            /\ \A k \in 1..Len(LogicalSizes) :
                  LET one == names[2 * k - 1]
                      two == names[2 * k]
                  IN  /\ one.ok /\ one.first = LogicalSizes[k] /\ one.scale = 1
                      /\ two.ok /\ two.first = LogicalSizes[k] /\ two.scale = 2
            /\ \A n \in 1..Len(LogicalSizes) : \A s \in {1, 2} :
                  Cardinality({i \in 1..Len(names) :
                                  /\ names[i].ok
                                  /\ names[i].first = LogicalSizes[n]
                                  /\ names[i].scale = s}) = 1

C5_Witness ==
    \E r \in Runs :
        /\ pc[r] = "l29"
        /\ idx[r] = 10
        /\ ReadName(filename[r]).first = 512
        /\ ReadName(filename[r]).scale = 2

\* The number of entries of table t with pixel dimension d.
TimesListed(t, d) == Cardinality({i \in 1..Len(t) : t[i][1] = d})

\* C10: in every entry the pixel dimension is the logical size of its filename
\* times its scale factor (1 without `@2x`, 2 with it); the filenames are
\* pairwise distinct although the dimensions 32, 256 and 512 each occur twice;
\* and the entry lines written are pairwise distinct.
C10_DimensionIsLogicalTimesScale ==
    \A r \in Runs :
        LET t     == sizes[r]
            names == NamesOf(t)
            list  == EntryLines(stdout[r])
        IN  /\ \A i \in 1..Len(t) :
                  names[i].ok /\ t[i][1] = names[i].first * names[i].scale
            /\ \A i, j \in 1..Len(t) : i # j => t[i][2] # t[j][2]
            /\ TimesListed(t, 32) = 2
            /\ TimesListed(t, 256) = 2
            /\ TimesListed(t, 512) = 2
            /\ \A i, j \in 1..Len(list) : i # j => list[i] # list[j]

C10_Witness ==
    \E r \in Runs :
        /\ Len(EntryLines(stdout[r])) = 10
        /\ ReadEntry(EntryLines(stdout[r])[2]).width = 32
        /\ ReadEntry(EntryLines(stdout[r])[3]).width = 32
        /\ EntryLines(stdout[r])[2] # EntryLines(stdout[r])[3]

-----------------------------------------------------------------------------
(* The run as a whole.                                                     *)

\* C9: the table is constant: in every state of every run, whatever statement
\* has been executed, `sizes` has the contents, length and order it was given
\* at startup, and no step changes it.
C9_TableNeverChanges ==
    /\ [] (\A r \in Runs : sizes[r] = SizeTable)
    /\ [][\A r \in Runs : sizes'[r] = sizes[r]]_vars

C9_Witness ==
    \E r \in Runs :
        /\ pc[r] = "exited"
        /\ idx[r] = Len(SizeTable)
        /\ sizes[r] = SizeTable

\* C7: the output does not depend on the run: of any two runs, in whatever
\* environments they were started and however far each has got, one has
\* written a beginning of what the other has written, and two finished runs
\* have written the same lines.
C7_RunsWriteTheSameLines ==
    \A r1, r2 \in Runs :
        /\ IsPrefix(stdout[r1], stdout[r2]) \/ IsPrefix(stdout[r2], stdout[r1])
        /\ (pc[r1] = "exited" /\ pc[r2] = "exited") => stdout[r1] = stdout[r2]

C7_Witness ==
    \E r1, r2 \in Runs :
        /\ environ[r1] # environ[r2]
        /\ pc[r1] = "exited"
        /\ pc[r2] = "exited"
        /\ Len(stdout[r1]) = 19
        /\ stdout[r1] = stdout[r2]

EnabledStatements(r) ==
    {k \in 1..12 :
        << ENABLED Print21(r), ENABLED Print22(r), ENABLED Print23(r),
           ENABLED Print24(r), ENABLED Print25(r), ENABLED Print26(r),
           ENABLED ForNext(r), ENABLED PrintEntry(r), ENABLED Print31(r),
           ENABLED Print32(r), ENABLED Print33(r), ENABLED Exit(r) >>[k]}

\* How far run r has got: every statement executed adds one.
Executed(r) ==
    Len(stdout[r]) + idx[r]
        + (IF pc[r] \in {"l31", "l32", "l33", "eof", "exited"} THEN 1 ELSE 0)
        + (IF pc[r] = "exited" THEN 1 ELSE 0)

C6_NeverStuckNeverFailed ==
    \A r \in Runs :
        /\ exitstatus[r] \in {<< >>, << 0 >>}
        /\ (pc[r] = "exited") <=> (exitstatus[r] = << 0 >>)
        /\ pc[r] # "exited" => Cardinality(EnabledStatements(r)) = 1
        /\ pc[r] = "exited" => EnabledStatements(r) = {}
        /\ pc[r] \in {"eof", "exited"} => stdout[r][Len(stdout[r])] = Text33

C6_StepsOnlyAdvance ==
    \A r \in Runs :
        /\ Executed(r)' \in {Executed(r), Executed(r) + 1}
        /\ pc[r] = "exited" => pc'[r] = "exited" /\ stdout'[r] = stdout[r]

\* C6: every run terminates, after writing its last line, with exit status 0:
\* a run that has not exited always has exactly one statement it can execute
\* (it never blocks and never has a choice), every statement it executes takes
\* it one step further (nothing is retried), no exit status other than 0 is
\* ever set, and the run does exit.
C6_EveryRunExitsWithSuccess ==
    /\ [] C6_NeverStuckNeverFailed
    /\ [][C6_StepsOnlyAdvance]_vars
    /\ \A r \in Runs : <>(pc[r] = "exited" /\ exitstatus[r] = << 0 >>)

C6_Witness ==
    \E r \in Runs :
        /\ pc[r] = "exited"
        /\ exitstatus[r] = << 0 >>
        /\ stdout[r][Len(stdout[r])] = Text33

=============================================================================
